---- MODULE Spec2Model ----
(***************************************************************************)
(* Model of AsyncQueue (src/unnamed/part_002): a queue of async tasks with *)
(* a concurrency limit, priorities, pause/start, clear and "empty"         *)
(* callbacks.                                                              *)
(*                                                                         *)
(* The JavaScript job queue is modelled explicitly: every promise reaction *)
(* the class sets up (task().then(resolve).catch(reject) in _process, and  *)
(* the .catch(...).finally(...) chain built in add) is one job in the FIFO *)
(* `microtasks`.  Calls of the public methods and settlements of the       *)
(* tasks' own promises may happen between any two jobs.                    *)
(*                                                                         *)
(* Jobs that change nothing are left out of the FIFO: the pass-through of  *)
(* .catch(reject) after a fulfilment, and the inner then() of finally.     *)
(* A task is an async function (JSDoc of add): task() returns a promise    *)
(* and does not throw; a promise already settled when task() returns is    *)
(* TaskSettles taken right after the start.  The onEmpty callbacks are     *)
(* observers: they do not call back into the queue.                        *)
(*                                                                         *)
(* The other classes of the repository that are verified here are modelled *)
(* after the queue, each with its own variables, actions and specification;*)
(* in the specification of one class the variables of the others rest in   *)
(* their initial state.                                                    *)
(***************************************************************************)
EXTENDS Integers, Sequences, FiniteSets

\* ---------------------------------------------------------------- bounds
MaxTasks == 3          \* number of add() calls explored
MaxSaturatedTasks == 4 \* number of add() calls explored on a queue never paused or cleared
MaxConcurrency == 2    \* largest options.concurrency explored
MaxCallbacks == 2      \* number of onEmpty() registrations explored
MaxPriority == 1       \* numeric priorities range over -MaxPriority..MaxPriority
MaxLiveTasks == 2      \* entries alive at a time on a queue that is used without end
MaxDebt == 1           \* clear() is explored while running - size >= -MaxDebt
MaxCommands == 2       \* commands on the undo stack of a CommandManager
MaxOperand == 2        \* operands of calculator commands range over 1..MaxOperand
MaxListeners == 3      \* registrations held by an EventEmitter at a time
MaxOnce == 2           \* once() calls explored on an EventEmitter
MaxCounted == 2        \* invocations of a once() wrapper are counted up to this number
MaxSourceValues == 3   \* values emitted by the source of an Observable
MaxTake == 3           \* largest count passed to take()
MaxTakes == 2          \* take() calls explored on the source
MaxSubscriptions == 3  \* subscribe() calls explored
MaxValue == 4          \* commands are executed while |calculator.value| <= MaxValue
MaxRetries == 2        \* options.maxRetries of retry ranges over 0..MaxRetries
MaxInitialDelay == 2   \* options.initialDelay ranges over 1..MaxInitialDelay (ms)
MaxDelayCap == 3       \* options.maxDelay ranges over 1..MaxDelayCap (ms)
RandomSteps == 2       \* Math.random() ranges over k / RandomSteps, k < RandomSteps
MaxCacheLimit == 2     \* options.maxSize of memoize ranges over 1..MaxCacheLimit
MaxKeys == 3           \* the memoized function is called with MaxKeys different arguments
MaxDepth == 2          \* calls of the memoized function in progress at a time
MaxInputs == 3         \* length of the array passed to promiseRace

MaxOf(a, b) == IF a > b THEN a ELSE b
Ids == 1..MaxOf(MaxOf(MaxTasks, MaxSaturatedTasks), MaxLiveTasks)

\* options.priority of add(): a number, or absent (undefined after the
\* destructuring at line 44)
NoPriority == [has |-> FALSE, num |-> 0]
NumPriority(n) == [has |-> TRUE, num |-> n]
Priorities == {NoPriority} \cup {NumPriority(n) : n \in (0 - MaxPriority)..MaxPriority}

\* outcomes of promises
Fulfilled(v) == [state |-> "fulfilled", value |-> v]
Rejected(v) == [state |-> "rejected", value |-> v]
Unsettled == [state |-> "pending", value |-> "none"]
QueueClearError == "QueueClearError"
TaskOutcomes == {Fulfilled("result"), Rejected("TaskError")}

VARIABLES
  concurrency,     \* this.concurrency
  autoStart,       \* this.autoStart
  queue,           \* this.queue: sequence of entries [id, priority]
  running,         \* this.running
  paused,          \* this.paused
  emptyCallbacks,  \* this.emptyCallbacks: sequence of callback ids
  tasks,           \* per add() call: "none" (not yet made), "queued", "running"
                   \* (task called, its promise unsettled), "settled" (its
                   \* promise settled), "done" (finally handler has run),
                   \* or "cleared" (discarded by clear)
  handle,          \* per add() call: state of the promise add() returned
  microtasks,      \* FIFO of pending promise reaction jobs
  lastCalls,       \* callbacks invoked by the step just taken, in order
  lastStarted,     \* entry whose task the step just taken called, or NoEntry
  owed,            \* a clear() of an otherwise idle queue awaits its notification
  work,            \* per add() call: outcome of the promise task() returned
  continued,       \* per add() call: the outcomes its resolve / reject were called with
  scheduling       \* the queue was told to schedule: autoStart, or start() was called

\* StateMachine (src/unnamed/part_000)
VARIABLES
  config,          \* this.config.states: per state, its `on` table if it has one
  currentState,    \* this.currentState
  context,         \* this.context
  canReturned      \* how the last call, if it was can(event), ended

\* CommandManager and the calculator commands (src/17-command-pattern/index.js)
VARIABLES
  calculator,      \* the calculator the commands work on: its value
  undoStack,       \* this.undoStack: sequence of commands
  redoStack        \* this.redoStack: sequence of commands

\* EventEmitter (src/08-event-emitter/index.js)
VARIABLES
  events,          \* this.events: per event name, whether the map has the key
                   \* and the array of listeners under it
  invoked,         \* per once() call: the number of emits that called its wrapper
  emitReturned     \* how the last call, if it was emit(event), ended

\* Observable (src/09-observable/index.js)
VARIABLES
  source,          \* the array the source was made from, Observable.from(array)
  takes,           \* per take(count) call on the source: count and the
                   \* emittedCount of its closure
  received         \* per subscribe() call on one of them: the values its
                   \* observer got and whether it was told complete

\* retry (src/unnamed/part_004)
VARIABLES
  retryOptions,    \* the options retry(fn, options) was called with
  attempt,         \* the loop variable of retry
  fnCalls,         \* the number of invocations of fn made so far
  fnOutcomes,      \* how the promises of these invocations settled, in order
  slept,           \* the delays passed to sleep, in order, in 1/JitterScale ms
  retryPromise,    \* state of the promise retry returned
  retryAt          \* where the call of retry is: "idle" (not made), "fn"
                   \* (awaiting fn()), "sleep" (awaiting sleep(delay)), "ended"

\* memoize (src/04-memoization/index.js)
VARIABLES
  maxSize,         \* options.maxSize
  cache,           \* the keys of the Map `cache`, in insertion order; the value
                   \* under a key is fn of the arguments the key stands for
  calling,         \* the keys of the wrapper calls whose fn.apply is in
                   \* progress, outermost first
  wrapperReturned  \* the key whose value the step just taken returned, or 0

\* promiseRace (src/05-promise-utilities/index.js)
VARIABLES
  inputs,          \* promiseArray: per item, the state of Promise.resolve(item)
  raceCalled,      \* promiseRace(promises) has been called
  raceJobs,        \* FIFO of the pending reaction jobs of its then / catch
  racePromise,     \* state of the promise promiseRace returned
  settled          \* the items in the order in which they settled (those
                   \* settled before the call in the order of the array)

queueVars == <<concurrency, autoStart, queue, running, paused, emptyCallbacks,
               tasks, handle, microtasks, lastCalls, lastStarted, owed, work,
               continued, scheduling>>
machineVars == <<config, currentState, context, canReturned>>

commandVars == <<calculator, undoStack, redoStack>>

emitterVars == <<events, invoked, emitReturned>>

observableVars == <<source, takes, received>>

retryVars == <<retryOptions, attempt, fnCalls, fnOutcomes, slept, retryPromise,
               retryAt>>

memoVars == <<maxSize, cache, calling, wrapperReturned>>

raceVars == <<inputs, raceCalled, raceJobs, racePromise, settled>>

vars == <<queueVars, machineVars, commandVars, emitterVars, observableVars,
          retryVars, memoVars, raceVars>>

besidesQueue == <<machineVars, commandVars, emitterVars, observableVars, retryVars,
                  memoVars, raceVars>>
besidesMachine == <<queueVars, commandVars, emitterVars, observableVars, retryVars,
                    memoVars, raceVars>>
besidesCommands == <<queueVars, machineVars, emitterVars, observableVars, retryVars,
                     memoVars, raceVars>>
besidesEmitter == <<queueVars, machineVars, commandVars, observableVars, retryVars,
                    memoVars, raceVars>>
besidesObservable == <<queueVars, machineVars, commandVars, emitterVars, retryVars,
                       memoVars, raceVars>>
besidesRetry == <<queueVars, machineVars, commandVars, emitterVars, observableVars,
                  memoVars, raceVars>>
besidesMemo == <<queueVars, machineVars, commandVars, emitterVars, observableVars,
                 retryVars, raceVars>>
besidesRace == <<queueVars, machineVars, commandVars, emitterVars, observableVars,
                 retryVars, memoVars>>

\* ------------------------------------------------------------ helpers
NoEntry == [id |-> 0, priority |-> NoPriority]
NumAdded == Cardinality({id \in Ids : tasks[id] # "none"})
Executing == {id \in Ids : tasks[id] = "running"}
InFlight == {id \in Ids : tasks[id] \in {"running", "settled"}}
Pending == {id \in Ids : tasks[id] = "queued"}
Job(kind, id, outcome) == [job |-> kind, id |-> id, outcome |-> outcome]
HeadIs(kind) == microtasks # <<>> /\ Head(microtasks).job = kind

\* JavaScript a >= b on priorities: any comparison with undefined is false
GreaterOrEqual(a, b) == a.has /\ b.has /\ a.num >= b.num

Swap(q, i) == [q EXCEPT ![i] = q[i + 1], ![i + 1] = q[i]]

\* the while loop of _insertWithPriority, i counted from 1
RECURSIVE Bubble(_, _)
Bubble(q, i) ==
  IF i >= 1 /\ GreaterOrEqual(q[i].priority, q[i + 1].priority)
  THEN Bubble(Swap(q, i), i - 1)
  ELSE q

InsertWithPriority(q, entry) == Bubble(Append(q, entry), Len(q))

\* the early return of _process
ProcessReturnsNoPause(q, r, p) == r >= concurrency \/ Len(q) = 0
ProcessReturnsOffByOne(q, r, p) == r + 1 >= concurrency \/ p \/ Len(q) = 0
ProcessReturnsAboveLimit(q, r, p) == r > concurrency \/ p \/ Len(q) = 0
ProcessReturns(q, r, p) == r >= concurrency \/ p \/ Len(q) = 0

ProcessKeepsEntry(q, r, p) ==
  IF ProcessReturns(q, r, p)
  THEN [queue |-> q, running |-> r, started |-> NoEntry]
  ELSE [queue |-> q, running |-> r + 1, started |-> q[Len(q)]]

ProcessDrainsQueue(q, r, p) ==
  IF ProcessReturns(q, r, p)
  THEN [queue |-> q, running |-> r, started |-> NoEntry]
  ELSE [queue |-> <<>>, running |-> r + 1, started |-> q[Len(q)]]

ProcessDropsHead(q, r, p) ==
  IF ProcessReturns(q, r, p)
  THEN [queue |-> q, running |-> r, started |-> NoEntry]
  ELSE [queue |-> SubSeq(q, 2, Len(q)), running |-> r + 1,
        started |-> q[Len(q)]]

ProcessStartsTwo(q, r, p) ==
  IF ProcessReturns(q, r, p)
  THEN [queue |-> q, running |-> r, started |-> NoEntry]
  ELSE IF Len(q) >= 2 /\ r + 2 <= concurrency
  THEN [queue |-> SubSeq(q, 1, Len(q) - 2), running |-> r + 2,
        started |-> q[Len(q)]]
  ELSE [queue |-> SubSeq(q, 1, Len(q) - 1), running |-> r + 1,
        started |-> q[Len(q)]]

\* _process: pops the tail entry, counts it as running and calls its task
Process(q, r, p) ==
  IF ProcessReturns(q, r, p)
  THEN [queue |-> q, running |-> r, started |-> NoEntry]
  ELSE [queue |-> SubSeq(q, 1, Len(q) - 1), running |-> r + 1,
        started |-> q[Len(q)]]

CheckEmptyLastFirst(q, r) ==
  IF Len(q) = 0 /\ r = 0
  THEN [k \in 1..Len(emptyCallbacks) |->
          emptyCallbacks[Len(emptyCallbacks) + 1 - k]]
  ELSE <<>>

CheckEmptyIgnoresQueue(q, r) == IF r = 0 THEN emptyCallbacks ELSE <<>>

\* _checkEmpty: the callbacks it invokes, in order
CheckEmpty(q, r) == IF Len(q) = 0 /\ r = 0 THEN emptyCallbacks ELSE <<>>

MarkStarted(t, entry) ==
  IF entry = NoEntry THEN t ELSE [t EXCEPT ![entry.id] = "running"]

\* ------------------------------------------- StateMachine: configuration
\* config.states: the machines explored have two states; a state has an `on`
\* table or none, the table has an entry for the event "go" or none, and no
\* table has an entry for the event "stop"
MachineStates == {"idle", "active"}
InitialState == "idle"
ConfiguredEvents == {"go"}
MachineEvents == ConfiguredEvents \cup {"stop"}

\* an entry of an `on` table: absent, a target state name, or an object
\* { target, guard, action } of which guard and action are optional
NoTransition ==
  [kind |-> "none", target |-> InitialState, guard |-> FALSE, action |-> FALSE]
StringTransition(t) ==
  [kind |-> "string", target |-> t, guard |-> FALSE, action |-> FALSE]
ObjectTransition(t, g, a) ==
  [kind |-> "object", target |-> t, guard |-> g, action |-> a]
TransitionConfigs ==
  {NoTransition}
    \cup {StringTransition(t) : t \in MachineStates}
    \cup {ObjectTransition(t, g, a) : t \in MachineStates, g \in BOOLEAN, a \in BOOLEAN}

NoTable == [hasOn |-> FALSE, on |-> [e \in ConfiguredEvents |-> NoTransition]]
StateConfigs ==
  {NoTable} \cup {[hasOn |-> TRUE, on |-> t] : t \in [ConfiguredEvents -> TransitionConfigs]}
MachineConfigs == [MachineStates -> StateConfigs]

\* the context carries one flag; the guards of the configuration read it and
\* the actions flip it
Contexts == [allowed : BOOLEAN]
Guard(ctx) == ctx.allowed
Action(ctx) == [ctx EXCEPT !.allowed = ~@]

\* what a call of can(event) came to: not made, returned a value, or threw
NotCalled == [called |-> FALSE, event |-> "go", threw |-> "none", value |-> FALSE]
Returned(event, v) == [called |-> TRUE, event |-> event, threw |-> "none", value |-> v]
Threw(event, error) == [called |-> TRUE, event |-> event, threw |-> error, value |-> FALSE]

MachineAtRest ==
  /\ config = [st \in MachineStates |-> NoTable]
  /\ currentState = InitialState
  /\ context = [allowed |-> FALSE]
  /\ canReturned = NotCalled

\* ------------------------------------------------- calculator commands
\* a command object: its class, its operand, the value it saved (none, as
\* after construction, or one) and, for a MacroCommand, its commands in the
\* order the array holds them
Command(type, operand) ==
  [type |-> type, value |-> operand, previous |-> <<>>, commands |-> <<>>]
SimpleCommands ==
  {Command(type, n) : type \in {"Add", "Subtract", "Multiply", "SetValue"},
                      n \in 1..MaxOperand}
MacroCommand(cmds) ==
  [type |-> "Macro", value |-> 0, previous |-> <<>>, commands |-> cmds]
\* the macros explored hold two commands of operand MaxOperand
MacroParts == {cmd \in SimpleCommands : cmd.value = MaxOperand}
NewCommands ==
  SimpleCommands
    \cup {MacroCommand(<<a, b>>) : a \in MacroParts, b \in MacroParts}

CommandsAtRest ==
  /\ calculator = 0
  /\ undoStack = <<>>
  /\ redoStack = <<>>

\* ------------------------------------------------------ EventEmitter: data
EmitterEvents == {"data", "end"}
\* the functions callers pass as listeners; they do not call the emitter
Listeners == {"f", "g"}
OnceCalls == 1..MaxOnce

\* an element of a listeners array: a function passed to on(), or the bound
\* wrapper made by the n-th once() call, whose _original is the function
Plain(fn) == [fn |-> fn, wrapper |-> 0]
Wrapper(fn, n) == [fn |-> fn, wrapper |-> n]

NoKey == [has |-> FALSE, listeners |-> <<>>]
NoEmit == [called |-> FALSE, value |-> FALSE, count |-> 0]

EmitterAtRest ==
  /\ events = [e \in EmitterEvents |-> NoKey]
  /\ invoked = [n \in OnceCalls |-> 0]
  /\ emitReturned = NoEmit

\* -------------------------------------------------------- Observable: data
\* the arrays the source is made from: <<1, ..., k>>
SourceArrays == {[i \in 1..k |-> i] : k \in 0..MaxSourceValues}

ObservableAtRest ==
  /\ source = <<>>
  /\ takes = <<>>
  /\ received = <<>>

\* ------------------------------------------------------------ retry: data
\* the strategies calculateDelay knows
Strategies == {"fixed", "linear", "exponential"}

\* options.backoff: one of them, or a strategy calculateDelay does not know;
\* options.retryIf: the default () => true, or a function that returns false
\* for the error "Fatal"
RetryOptions ==
  [maxRetries : 0..MaxRetries, initialDelay : 1..MaxInitialDelay,
   maxDelay : 1..MaxDelayCap, backoff : Strategies \cup {"quadratic"},
   jitter : BOOLEAN, retryIf : {"default", "notFatal"}]

\* fn fulfils with the result of its n-th invocation, or rejects with an
\* error made by its n-th invocation, of the kind "Transient" or "Fatal"
Result(n) == [state |-> "fulfilled", kind |-> "result", call |-> n]
Failure(kind, n) == [state |-> "rejected", kind |-> kind, call |-> n]
NotSettled == [state |-> "pending", kind |-> "none", call |-> 0]

\* delays are counted in 1/JitterScale ms, the steps of applyJitter
JitterScale == 4 * RandomSteps

RetryAtRest ==
  /\ retryOptions =
       [maxRetries |-> 0, initialDelay |-> 1, maxDelay |-> 1,
        backoff |-> "exponential", jitter |-> FALSE, retryIf |-> "default"]
  /\ attempt = 1
  /\ fnCalls = 0
  /\ fnOutcomes = <<>>
  /\ slept = <<>>
  /\ retryPromise = NotSettled
  /\ retryAt = "idle"

\* ---------------------------------------------------------- memoize: data
\* the keys keyGenerator(args) makes of the arguments the wrapper is called
\* with are 1..MaxKeys
MemoAtRest ==
  /\ maxSize = 1
  /\ cache = <<>>
  /\ calling = <<>>
  /\ wrapperReturned = 0

\* ------------------------------------------------------ promiseRace: data
\* the state of an item: a promise still pending, a value or a fulfilled
\* promise, or a rejected promise
InputArrays ==
  UNION {[1..n -> {"pending", "fulfilled", "rejected"}] : n \in 0..MaxInputs}

\* the outcome the i-th item settles with carries its value or reason
Outcome(i, st) == [state |-> st, input |-> i]
RacePending == [state |-> "pending", input |-> 0]

RaceAtRest ==
  /\ inputs = <<>>
  /\ raceCalled = FALSE
  /\ raceJobs = <<>>
  /\ racePromise = RacePending
  /\ settled = <<>>

\* --------------------------------------------------------------- Init
\* the constructor, but for this.concurrency
InitFields ==
  /\ autoStart \in BOOLEAN
  /\ queue = <<>>
  /\ running = 0
  /\ paused = FALSE
  /\ emptyCallbacks = <<>>
  /\ tasks = [id \in Ids |-> "none"]
  /\ handle = [id \in Ids |-> Unsettled]
  /\ microtasks = <<>>
  /\ lastCalls = <<>>
  /\ lastStarted = NoEntry
  /\ owed = FALSE
  /\ work = [id \in Ids |-> Unsettled]
  /\ continued = [id \in Ids |-> <<>>]
  /\ scheduling = autoStart

Init ==
  /\ concurrency \in 1..MaxConcurrency
  /\ InitFields
  /\ MachineAtRest
  /\ CommandsAtRest
  /\ EmitterAtRest
  /\ ObservableAtRest
  /\ RetryAtRest
  /\ MemoAtRest
  /\ RaceAtRest

QueueAtRest ==
  /\ concurrency = 1
  /\ InitFields
  /\ autoStart

\* options.concurrency as the caller may pass it: absent, or any number
OptionAbsent == [has |-> FALSE, num |-> 0]
OptionOf(n) == [has |-> TRUE, num |-> n]
ConcurrencyOptions ==
  {OptionAbsent} \cup {OptionOf(n) : n \in (0 - 1)..MaxConcurrency}

\* options.concurrency || 1
ConstructedConcurrency(opt) == IF ~opt.has \/ opt.num = 0 THEN 1 ELSE opt.num

ConstructorInit ==
  /\ \E opt \in ConcurrencyOptions : concurrency = ConstructedConcurrency(opt)
  /\ InitFields
  /\ MachineAtRest
  /\ CommandsAtRest
  /\ EmitterAtRest
  /\ ObservableAtRest
  /\ RetryAtRest
  /\ MemoAtRest
  /\ RaceAtRest

\* ------------------------------------------------------ public methods
\* the entry of a new call takes the first unused name
FreshId == CHOOSE i \in Ids :
             tasks[i] = "none" /\ \A j \in Ids : tasks[j] = "none" => i <= j

AddEntry(prio) ==
  LET id == FreshId
      q1 == InsertWithPriority(queue, [id |-> id, priority |-> prio])
      res == IF autoStart THEN Process(q1, running, paused)
             ELSE [queue |-> q1, running |-> running, started |-> NoEntry]
  IN /\ queue' = res.queue
     /\ running' = res.running
     /\ tasks' = MarkStarted([tasks EXCEPT ![id] = "queued"], res.started)
     /\ lastStarted' = res.started
     /\ lastCalls' = <<>>
     /\ owed' = FALSE
     /\ UNCHANGED <<besidesQueue, concurrency, autoStart, paused, emptyCallbacks, handle,
                    microtasks, work, continued, scheduling>>

Add(prio) == NumAdded < MaxTasks /\ AddEntry(prio)

Start ==
  LET res == Process(queue, running, FALSE)
  IN /\ paused' = FALSE
     /\ queue' = res.queue
     /\ running' = res.running
     /\ tasks' = MarkStarted(tasks, res.started)
     /\ lastStarted' = res.started
     /\ lastCalls' = <<>>
     /\ scheduling' = TRUE
     /\ UNCHANGED <<besidesQueue, concurrency, autoStart, emptyCallbacks, handle,
                    microtasks, owed, work, continued>>

Pause ==
  /\ paused' = TRUE
  /\ lastCalls' = <<>>
  /\ lastStarted' = NoEntry
  /\ UNCHANGED <<besidesQueue, concurrency, autoStart, queue, running, emptyCallbacks,
                 tasks, handle, microtasks, owed, work, continued, scheduling>>

ClearKeepsQueue ==
  /\ microtasks' = microtasks \o
       [k \in 1..Len(queue) |->
          Job("catchHandler", queue[k].id, Rejected(QueueClearError))]
  /\ tasks' = [id \in Ids |->
       IF tasks[id] = "queued" THEN "cleared" ELSE tasks[id]]
  /\ lastCalls' = <<>>
  /\ lastStarted' = NoEntry
  /\ continued' = [id \in Ids |->
       IF \E k \in 1..Len(queue) : queue[k].id = id
       THEN Append(continued[id], Rejected(QueueClearError))
       ELSE continued[id]]
  /\ UNCHANGED <<besidesQueue, concurrency, autoStart, queue, running, paused,
                 emptyCallbacks, handle, work, scheduling, owed>>

\* clear: reject(new QueueClearError()) of every entry settles the promise
\* created in add and queues the reaction of its .catch handler
Clear ==
  /\ microtasks' = microtasks \o
       [k \in 1..Len(queue) |->
          Job("catchHandler", queue[k].id, Rejected(QueueClearError))]
  /\ tasks' = [id \in Ids |->
       IF tasks[id] = "queued" THEN "cleared" ELSE tasks[id]]
  /\ queue' = <<>>
  /\ lastCalls' = <<>>
  /\ lastStarted' = NoEntry
  /\ owed' = IF queue # <<>> /\ InFlight = {} /\ emptyCallbacks # <<>>
             THEN TRUE ELSE owed
  /\ continued' = [id \in Ids |->
       IF \E k \in 1..Len(queue) : queue[k].id = id
       THEN Append(continued[id], Rejected(QueueClearError))
       ELSE continued[id]]
  /\ UNCHANGED <<besidesQueue, concurrency, autoStart, running, paused, emptyCallbacks,
                 handle, work, scheduling>>

\* every call registers a new function, named by its registration number
OnEmpty ==
  /\ Len(emptyCallbacks) < MaxCallbacks
  /\ emptyCallbacks' = Append(emptyCallbacks, Len(emptyCallbacks) + 1)
  /\ lastCalls' = <<>>
  /\ lastStarted' = NoEntry
  /\ UNCHANGED <<besidesQueue, concurrency, autoStart, queue, running, paused, tasks,
                 handle, microtasks, owed, work, continued, scheduling>>

\* ------------------------------------------------- the task's own promise
\* the promise returned by task() settles; the reaction registered by
\* .then(resolve) in _process is queued
TaskSettles(id, outcome) ==
  /\ tasks[id] = "running"
  /\ tasks' = [tasks EXCEPT ![id] = "settled"]
  /\ microtasks' = Append(microtasks, Job("thenResolve", id, outcome))
  /\ lastCalls' = <<>>
  /\ lastStarted' = NoEntry
  /\ work' = [work EXCEPT ![id] = outcome]
  /\ UNCHANGED <<besidesQueue, concurrency, autoStart, queue, running, paused,
                 emptyCallbacks, handle, owed, continued, scheduling>>

\* ------------------------------------------------------ promise reactions
\* resolve / reject of the promise created in add is called with an outcome
Continue(id, outcome) ==
  continued' = [continued EXCEPT ![id] = Append(@, outcome)]

Requeue(kind, outcome) ==
  /\ microtasks' = Append(Tail(microtasks),
                          Job(kind, Head(microtasks).id, outcome))
  /\ lastCalls' = <<>>
  /\ lastStarted' = NoEntry
  /\ UNCHANGED <<besidesQueue, concurrency, autoStart, queue, running, paused,
                 emptyCallbacks, tasks, handle, owed, work, scheduling>>

\* task().then(resolve): a fulfilment calls resolve, a rejection passes on
\* to .catch(reject)
ThenResolve ==
  /\ HeadIs("thenResolve")
  /\ Requeue(IF Head(microtasks).outcome.state = "fulfilled"
             THEN "catchHandler" ELSE "catchReject",
             Head(microtasks).outcome)
  /\ IF Head(microtasks).outcome.state = "fulfilled"
     THEN Continue(Head(microtasks).id, Head(microtasks).outcome)
     ELSE UNCHANGED continued

\* .catch(reject): calls reject with the task's error
CatchReject ==
  /\ HeadIs("catchReject")
  /\ Requeue("catchHandler", Head(microtasks).outcome)
  /\ Continue(Head(microtasks).id, Head(microtasks).outcome)

CatchOutcomeSwallowsAll(outcome) ==
  IF outcome.state = "rejected" THEN Fulfilled("undefined") ELSE outcome

\* the .catch handler of add: swallows a QueueClearError, rethrows the rest
CatchOutcome(outcome) ==
  IF outcome.state = "rejected" /\ outcome.value = QueueClearError
  THEN Fulfilled("undefined")
  ELSE outcome

CatchHandler ==
  /\ HeadIs("catchHandler")
  /\ Requeue("finallyHandler", CatchOutcome(Head(microtasks).outcome))
  /\ UNCHANGED continued

FinallyHandlerSkipsProcess ==
  LET j == Head(microtasks)
      r1 == running - 1
      calls == CheckEmpty(queue, r1)
  IN /\ HeadIs("finallyHandler")
     /\ running' = r1
     /\ lastCalls' = calls
     /\ tasks' = [tasks EXCEPT ![j.id] = IF @ = "settled" THEN "done" ELSE @]
     /\ lastStarted' = NoEntry
     /\ microtasks' = Append(Tail(microtasks),
                             Job("resolveThenable", j.id, j.outcome))
     /\ owed' = IF calls # <<>> THEN FALSE ELSE owed
     /\ UNCHANGED <<besidesQueue, concurrency, autoStart, queue, paused,
                    emptyCallbacks, handle, work, continued, scheduling>>

\* the .finally handler of add: running--, _checkEmpty(), _process()
FinallyHandler ==
  LET j == Head(microtasks)
      r1 == running - 1
      calls == CheckEmpty(queue, r1)
      res == Process(queue, r1, paused)
  IN /\ HeadIs("finallyHandler")
     /\ queue' = res.queue
     /\ running' = res.running
     /\ lastCalls' = calls
     /\ tasks' = MarkStarted(
           [tasks EXCEPT ![j.id] = IF @ = "settled" THEN "done" ELSE @],
           res.started)
     /\ lastStarted' = res.started
     /\ microtasks' = Append(Tail(microtasks),
                             Job("resolveThenable", j.id, j.outcome))
     /\ owed' = IF calls # <<>> THEN FALSE ELSE owed
     /\ UNCHANGED <<besidesQueue, concurrency, autoStart, paused, emptyCallbacks, handle,
                    work, continued, scheduling>>

\* finally resolves the returned promise with a promise for the original
\* outcome: one job to adopt it ...
ResolveThenable ==
  /\ HeadIs("resolveThenable")
  /\ Requeue("settleHandle", Head(microtasks).outcome)
  /\ UNCHANGED continued

\* ... and one that settles the promise add() returned
SettleHandle ==
  /\ HeadIs("settleHandle")
  /\ handle' = [handle EXCEPT ![Head(microtasks).id] = Head(microtasks).outcome]
  /\ microtasks' = Tail(microtasks)
  /\ lastCalls' = <<>>
  /\ lastStarted' = NoEntry
  /\ UNCHANGED <<besidesQueue, concurrency, autoStart, queue, running, paused,
                 emptyCallbacks, tasks, owed, work, continued, scheduling>>

Next ==
  \/ \E prio \in Priorities : Add(prio)
  \/ Start
  \/ Pause
  \/ Clear
  \/ OnEmpty
  \/ \E id \in Ids, outcome \in TaskOutcomes : TaskSettles(id, outcome)
  \/ ThenResolve
  \/ CatchReject
  \/ CatchHandler
  \/ FinallyHandler
  \/ ResolveThenable
  \/ SettleHandle

Spec == Init /\ [][Next]_vars

\* A queue with concurrency 1 and autoStart that is never paused or cleared and
\* has no callbacks: every entry found pending was added while the only slot
\* was taken.
SaturatedInit == Init /\ concurrency = 1 /\ autoStart

SaturatedAdd(prio) == NumAdded < MaxSaturatedTasks /\ AddEntry(prio)

SaturatedNext ==
  \/ \E prio \in Priorities : SaturatedAdd(prio)
  \/ \E id \in Ids, outcome \in TaskOutcomes : TaskSettles(id, outcome)
  \/ ThenResolve
  \/ CatchReject
  \/ CatchHandler
  \/ FinallyHandler
  \/ ResolveThenable
  \/ SettleHandle

SaturatedSpec == SaturatedInit /\ [][SaturatedNext]_vars

\* A queue with autoStart that is used without end: an entry whose handle has
\* settled is released and its name is taken again by a later add().  The
\* jobs of the job queue run, every started task settles and every pause() is
\* followed by a start().
LiveInit == Init /\ autoStart

LiveAdd(prio) == NumAdded < MaxLiveTasks /\ AddEntry(prio)

LiveClear == running - Len(queue) >= 0 - MaxDebt /\ Clear

Release(id) ==
  /\ tasks[id] \in {"done", "cleared"}
  /\ handle[id] # Unsettled
  /\ tasks' = [tasks EXCEPT ![id] = "none"]
  /\ handle' = [handle EXCEPT ![id] = Unsettled]
  /\ work' = [work EXCEPT ![id] = Unsettled]
  /\ continued' = [continued EXCEPT ![id] = <<>>]
  /\ lastCalls' = <<>>
  /\ lastStarted' = NoEntry
  /\ UNCHANGED <<besidesQueue, concurrency, autoStart, queue, running, paused,
                 emptyCallbacks, microtasks, owed, scheduling>>

RunJob ==
  \/ ThenResolve
  \/ CatchReject
  \/ CatchHandler
  \/ FinallyHandler
  \/ ResolveThenable
  \/ SettleHandle

LiveNext ==
  \/ \E prio \in Priorities : LiveAdd(prio)
  \/ Start
  \/ Pause
  \/ LiveClear
  \/ \E id \in Ids, outcome \in TaskOutcomes : TaskSettles(id, outcome)
  \/ RunJob
  \/ \E id \in Ids : Release(id)

LiveFairness ==
  /\ WF_vars(RunJob)
  /\ \A id \in Ids : WF_vars(\E outcome \in TaskOutcomes : TaskSettles(id, outcome))
  /\ WF_vars(paused /\ Start)

LiveSpec == LiveInit /\ [][LiveNext]_vars /\ LiveFairness

\* A queue with autoStart on which pause() and clear() are never called.
SteadyNext ==
  \/ \E prio \in Priorities : Add(prio)
  \/ Start
  \/ OnEmpty
  \/ \E id \in Ids, outcome \in TaskOutcomes : TaskSettles(id, outcome)
  \/ ThenResolve
  \/ CatchReject
  \/ CatchHandler
  \/ FinallyHandler
  \/ ResolveThenable
  \/ SettleHandle

SteadySpec == LiveInit /\ [][SteadyNext]_vars

\* Queues built from any options.concurrency.
ConstructorSpec == ConstructorInit /\ [][Next]_vars

\* ------------------------------------------------------------ StateMachine
\* this.config.states[this.currentState].on[event], undefined when the table
\* or the entry is missing
TableEntry(cfg, st, event) ==
  IF cfg[st].hasOn /\ event \in ConfiguredEvents
  THEN cfg[st].on[event]
  ELSE NoTransition

\* transition(event): the value returned, the state and the context after it
Transition(cfg, st, ctx, event) ==
  LET tc == TableEntry(cfg, st, event)
  IN IF tc.kind = "none"
     THEN [value |-> FALSE, state |-> st, context |-> ctx]
     ELSE IF tc.guard /\ ~Guard(ctx)
     THEN [value |-> FALSE, state |-> st, context |-> ctx]
     ELSE [value |-> TRUE, state |-> tc.target,
           context |-> IF tc.action THEN Action(ctx) ELSE ctx]

\* can(event): `?.` covers a missing state only, so reading [event] of a
\* missing `on` table throws; the guard is called as
\* transitionConfig(guard(this.context)), where guard is no identifier in
\* scope
Can(cfg, st, ctx, event) ==
  LET tc == TableEntry(cfg, st, event)
  IN IF ~cfg[st].hasOn THEN Threw(event, "TypeError")
     ELSE IF tc.kind = "none" THEN Returned(event, FALSE)
     ELSE IF tc.kind = "object" /\ tc.guard THEN Threw(event, "ReferenceError")
     ELSE Returned(event, TRUE)

MachineInit ==
  /\ config \in MachineConfigs
  /\ currentState = InitialState
  /\ context \in Contexts
  /\ canReturned = NotCalled
  /\ QueueAtRest /\ CommandsAtRest /\ EmitterAtRest /\ ObservableAtRest
  /\ RetryAtRest
  /\ MemoAtRest
  /\ RaceAtRest

MachineTransition(event) ==
  LET res == Transition(config, currentState, context, event)
  IN /\ currentState' = res.state
     /\ context' = res.context
     /\ canReturned' = NotCalled
     /\ UNCHANGED <<besidesMachine, config>>

MachineCan(event) ==
  /\ canReturned' = Can(config, currentState, context, event)
  /\ UNCHANGED <<besidesMachine, config, currentState, context>>

\* updateContext(updater) with an object that carries the flag
UpdateContext(updater) ==
  /\ context' = updater
  /\ canReturned' = NotCalled
  /\ UNCHANGED <<besidesMachine, config, currentState>>

\* reset() without a new context
MachineReset ==
  /\ currentState' = InitialState
  /\ canReturned' = NotCalled
  /\ UNCHANGED <<besidesMachine, config, context>>

MachineNext ==
  \/ \E event \in MachineEvents : MachineTransition(event)
  \/ \E event \in MachineEvents : MachineCan(event)
  \/ \E updater \in Contexts : UpdateContext(updater)
  \/ MachineReset

MachineSpec == MachineInit /\ [][MachineNext]_vars

\* --------------------------------------------------------- CommandManager
Reverse(seq) == [k \in 1..Len(seq) |-> seq[Len(seq) + 1 - k]]

\* execute() of a command that is no macro: the command and the calculator
\* value after it
ExecuteSimple(cmd, v) ==
  IF cmd.type = "Add" THEN [command |-> cmd, value |-> v + cmd.value]
  ELSE IF cmd.type = "Subtract" THEN [command |-> cmd, value |-> v - cmd.value]
  ELSE IF cmd.type = "Multiply"
  THEN [command |-> [cmd EXCEPT !.previous = <<v>>], value |-> v * cmd.value]
  ELSE [command |-> [cmd EXCEPT !.previous = <<v>>], value |-> cmd.value]

\* undo() of a command that is no macro
UndoSimple(cmd, v) ==
  IF cmd.type = "Add" THEN [command |-> cmd, value |-> v - cmd.value]
  ELSE IF cmd.type = "Subtract" THEN [command |-> cmd, value |-> v + cmd.value]
  ELSE [command |-> [cmd EXCEPT !.previous = <<>>], value |-> cmd.previous[1]]

\* this.commands.forEach(command => command.execute()), from position k on
RECURSIVE ExecuteEach(_, _, _)
ExecuteEach(cmds, k, v) ==
  IF k > Len(cmds) THEN [commands |-> cmds, value |-> v]
  ELSE LET res == ExecuteSimple(cmds[k], v)
       IN ExecuteEach([cmds EXCEPT ![k] = res.command], k + 1, res.value)

RECURSIVE UndoEach(_, _, _)
UndoEach(cmds, k, v) ==
  IF k > Len(cmds) THEN [commands |-> cmds, value |-> v]
  ELSE LET res == UndoSimple(cmds[k], v)
       IN UndoEach([cmds EXCEPT ![k] = res.command], k + 1, res.value)

CommandExecute(cmd, v) ==
  IF cmd.type = "Macro"
  THEN LET res == ExecuteEach(cmd.commands, 1, v)
       IN [command |-> [cmd EXCEPT !.commands = res.commands], value |-> res.value]
  ELSE ExecuteSimple(cmd, v)

\* MacroCommand.undo: this.commands.reverse() reverses the array in place
CommandUndo(cmd, v) ==
  IF cmd.type = "Macro"
  THEN LET res == UndoEach(Reverse(cmd.commands), 1, v)
       IN [command |-> [cmd EXCEPT !.commands = res.commands], value |-> res.value]
  ELSE UndoSimple(cmd, v)

\* the methods of CommandManager on a manager st = [value, undoStack, redoStack]
Manager == [value |-> calculator, undoStack |-> undoStack, redoStack |-> redoStack]

ExecuteOn(st, cmd) ==
  LET res == CommandExecute(cmd, st.value)
  IN [value |-> res.value, undoStack |-> Append(st.undoStack, res.command),
      redoStack |-> <<>>]

UndoOn(st) ==
  IF Len(st.undoStack) = 0 THEN st
  ELSE LET n == Len(st.undoStack)
           res == CommandUndo(st.undoStack[n], st.value)
       IN [value |-> res.value, undoStack |-> SubSeq(st.undoStack, 1, n - 1),
           redoStack |-> Append(st.redoStack, res.command)]

RedoOn(st) ==
  IF Len(st.redoStack) = 0 THEN st
  ELSE LET n == Len(st.redoStack)
           res == CommandExecute(st.redoStack[n], st.value)
       IN [value |-> res.value, undoStack |-> Append(st.undoStack, res.command),
           redoStack |-> SubSeq(st.redoStack, 1, n - 1)]

Becomes(st) ==
  /\ calculator' = st.value
  /\ undoStack' = st.undoStack
  /\ redoStack' = st.redoStack
  /\ UNCHANGED besidesCommands

CommandsInit ==
  /\ calculator \in 0..1
  /\ undoStack = <<>>
  /\ redoStack = <<>>
  /\ QueueAtRest /\ MachineAtRest /\ EmitterAtRest /\ ObservableAtRest
  /\ RetryAtRest
  /\ MemoAtRest
  /\ RaceAtRest

\* execute(command) with a command object made for this call
Execute(cmd) ==
  /\ Len(undoStack) < MaxCommands
  /\ calculator \in (0 - MaxValue)..MaxValue
  /\ Becomes(ExecuteOn(Manager, cmd))

Undo == Becomes(UndoOn(Manager))

Redo == Becomes(RedoOn(Manager))

ClearHistory ==
  /\ undoStack' = <<>>
  /\ redoStack' = <<>>
  /\ UNCHANGED <<besidesCommands, calculator>>

CommandsNext ==
  \/ \E cmd \in NewCommands : Execute(cmd)
  \/ Undo
  \/ Redo
  \/ ClearHistory

CommandsSpec == CommandsInit /\ [][CommandsNext]_vars

\* ----------------------------------------------------------- EventEmitter
RemoveAt(seq, i) == SubSeq(seq, 1, i - 1) \o SubSeq(seq, i + 1, Len(seq))

\* listeners.findIndex(l => l === listener || l._original === listener),
\* 0 for -1
FindIndex(list, fn) ==
  IF \E i \in 1..Len(list) : list[i].fn = fn
  THEN CHOOSE i \in 1..Len(list) :
         list[i].fn = fn /\ \A j \in 1..(i - 1) : list[j].fn # fn
  ELSE 0

\* off(event, listener) on the array under the key
OffList(list, fn) ==
  IF FindIndex(list, fn) = 0 THEN list ELSE RemoveAt(list, FindIndex(list, fn))

ListenerCount(e) == IF events[e].has THEN Len(events[e].listeners) ELSE 0
Registrations ==
  ListenerCount("data") + ListenerCount("end")

\* the for loop of emit over the copy `snapshot`, from position k on: a
\* wrapper calls its listener and then this.off(event, listener) on the
\* array under the key
RECURSIVE EmitEach(_, _, _, _)
EmitEach(snapshot, k, list, counts) ==
  IF k > Len(snapshot) THEN [listeners |-> list, invoked |-> counts]
  ELSE IF snapshot[k].wrapper = 0
  THEN EmitEach(snapshot, k + 1, list, counts)
  ELSE EmitEach(snapshot, k + 1, OffList(list, snapshot[k].fn),
                [counts EXCEPT ![snapshot[k].wrapper] =
                   IF @ < MaxCounted THEN @ + 1 ELSE @])

EmitterInit ==
  /\ EmitterAtRest
  /\ QueueAtRest /\ MachineAtRest /\ CommandsAtRest /\ ObservableAtRest
  /\ RetryAtRest
  /\ MemoAtRest
  /\ RaceAtRest

Register(e, element) ==
  /\ Registrations < MaxListeners
  /\ events' = [events EXCEPT ![e] =
       [has |-> TRUE, listeners |-> Append(events[e].listeners, element)]]
  /\ emitReturned' = NoEmit
  /\ UNCHANGED <<besidesEmitter, invoked>>

On(e, fn) == Register(e, Plain(fn))

\* once(event, listener): the n-th call of once makes the n-th wrapper
OnceMade == {n \in OnceCalls : invoked[n] > 0
               \/ \E e \in EmitterEvents : \E i \in 1..Len(events[e].listeners) :
                    events[e].listeners[i].wrapper = n}
Once(e, fn) ==
  /\ OnceMade # OnceCalls
  /\ Register(e, Wrapper(fn, CHOOSE n \in OnceCalls \ OnceMade :
                               \A o \in OnceCalls \ OnceMade : n <= o))

Off(e, fn) ==
  /\ events' = [events EXCEPT ![e] =
       IF events[e].has
       THEN [has |-> TRUE, listeners |-> OffList(events[e].listeners, fn)]
       ELSE events[e]]
  /\ emitReturned' = NoEmit
  /\ UNCHANGED <<besidesEmitter, invoked>>

Emit(e) ==
  LET res == EmitEach(events[e].listeners, 1, events[e].listeners, invoked)
  IN IF ~events[e].has
     THEN /\ emitReturned' = [called |-> TRUE, value |-> FALSE, count |-> 0]
          /\ UNCHANGED <<besidesEmitter, events, invoked>>
     ELSE /\ events' = [events EXCEPT ![e] =
               [has |-> TRUE, listeners |-> res.listeners]]
          /\ invoked' = res.invoked
          /\ emitReturned' =
               [called |-> TRUE, value |-> TRUE, count |-> ListenerCount(e)]
          /\ UNCHANGED besidesEmitter

\* removeAllListeners(event)
RemoveAllListenersOf(e) ==
  /\ events' = [events EXCEPT ![e] = NoKey]
  /\ emitReturned' = NoEmit
  /\ UNCHANGED <<besidesEmitter, invoked>>

\* removeAllListeners()
RemoveAllListeners ==
  /\ events' = [e \in EmitterEvents |-> NoKey]
  /\ emitReturned' = NoEmit
  /\ UNCHANGED <<besidesEmitter, invoked>>

EmitterNext ==
  \/ \E e \in EmitterEvents, fn \in Listeners : On(e, fn)
  \/ \E e \in EmitterEvents, fn \in Listeners : Once(e, fn)
  \/ \E e \in EmitterEvents, fn \in Listeners : Off(e, fn)
  \/ \E e \in EmitterEvents : Emit(e)
  \/ \E e \in EmitterEvents : RemoveAllListenersOf(e)
  \/ RemoveAllListeners

EmitterSpec == EmitterInit /\ [][EmitterNext]_vars

\* ------------------------------------------------------------- Observable
\* One subscription to source.take(count), the source being
\* Observable.from(array): array.forEach(value => subscriber.next(value))
\* runs the next() of take from position k on, with the closure's counter at
\* `emitted`; `got` is what the observer has received, `done` whether the
\* outer subscriber has completed (it passes nothing on afterwards).
RECURSIVE TakeEach(_, _, _, _, _, _)
TakeEach(array, k, count, emitted, got, done) ==
  IF k > Len(array)
  THEN [emittedCount |-> emitted, values |-> got, completed |-> done]
  ELSE IF emitted = count
  THEN TakeEach(array, k + 1, count, emitted, got, TRUE)
  ELSE TakeEach(array, k + 1, count, emitted + 1,
                IF done THEN got ELSE Append(got, array[k]), done)

\* the whole subscription: the values, then the source's subscriber.complete()
SubscribeTake(array, take) ==
  LET res == TakeEach(array, 1, take.count, take.emittedCount, <<>>, FALSE)
  IN [res EXCEPT !.completed = TRUE]

ObservableInit ==
  /\ source \in SourceArrays
  /\ takes = <<>>
  /\ received = <<>>
  /\ QueueAtRest /\ MachineAtRest /\ CommandsAtRest /\ EmitterAtRest
  /\ RetryAtRest
  /\ MemoAtRest
  /\ RaceAtRest

\* source.take(count): a new Observable whose closure holds emittedCount = 0
Take(count) ==
  /\ Len(takes) < MaxTakes
  /\ takes' = Append(takes, [count |-> count, emittedCount |-> 0])
  /\ UNCHANGED <<besidesObservable, source, received>>

\* subscribe(observer) on the t-th of them
Subscribe(t) ==
  /\ t <= Len(takes)
  /\ LET res == SubscribeTake(source, takes[t])
     IN /\ Len(received) < MaxSubscriptions
        /\ takes' = [takes EXCEPT ![t].emittedCount = res.emittedCount]
        /\ received' = Append(received,
             [take |-> t, values |-> res.values, completed |-> res.completed])
        /\ UNCHANGED <<besidesObservable, source>>

ObservableNext ==
  \/ \E count \in 0..MaxTake : Take(count)
  \/ \E t \in 1..MaxTakes : Subscribe(t)

ObservableSpec == ObservableInit /\ [][ObservableNext]_vars

\* ------------------------------------------------------------------ retry
RECURSIVE Pow2(_)
Pow2(n) == IF n = 0 THEN 1 ELSE 2 * Pow2(n - 1)

\* calculateDelay for the strategies it knows, in ms
CalculateDelay(strategy, n, initialDelay) ==
  IF strategy = "fixed" THEN initialDelay
  ELSE IF strategy = "linear" THEN initialDelay * n
  ELSE initialDelay * Pow2(n - 1)

\* applyJitter with Math.random() = k / RandomSteps, in 1/JitterScale ms:
\* delay * (1 + (k / RandomSteps) * 0.25)
ApplyJitter(delay, k) == delay * (JitterScale + k)

\* lines 36-38 with Math.random() = k / RandomSteps, in 1/JitterScale ms
Delay(opts, n, k) ==
  LET delay == CalculateDelay(opts.backoff, n, opts.initialDelay)
      capped == IF delay < opts.maxDelay THEN delay ELSE opts.maxDelay
  IN IF opts.jitter THEN ApplyJitter(capped, k) ELSE capped * JitterScale

RetryIf(opts, error) == opts.retryIf = "default" \/ error.kind # "Fatal"

\* attempt === maxRetries + 1
LastAttemptOneMore(opts, n) == n = opts.maxRetries + 2
LastAttempt(opts, n) == n = opts.maxRetries + 1

RetryInit ==
  /\ retryOptions \in RetryOptions
  /\ attempt = 1
  /\ fnCalls = 0
  /\ fnOutcomes = <<>>
  /\ slept = <<>>
  /\ retryPromise = NotSettled
  /\ retryAt = "idle"
  /\ QueueAtRest /\ MachineAtRest /\ CommandsAtRest /\ EmitterAtRest
  /\ ObservableAtRest
  /\ MemoAtRest
  /\ RaceAtRest

\* retry(fn, options) is called: the loop starts and invokes fn
Retry ==
  /\ retryAt = "idle"
  /\ retryAt' = "fn"
  /\ fnCalls' = fnCalls + 1
  /\ UNCHANGED <<besidesRetry, retryOptions, attempt, fnOutcomes, slept, retryPromise>>

\* the promise of fn() fulfils: return await fn()
FnFulfils ==
  /\ retryAt = "fn"
  /\ fnOutcomes' = Append(fnOutcomes, Result(fnCalls))
  /\ retryPromise' = Result(fnCalls)
  /\ retryAt' = "ended"
  /\ UNCHANGED <<besidesRetry, retryOptions, attempt, fnCalls, slept>>

\* the promise of fn() rejects: the catch block, up to await sleep(delay);
\* onRetry is an observer; calculateDelay throws for a strategy it does not
\* know and the error leaves retry
FnRejects(kind, k) ==
  LET error == Failure(kind, fnCalls)
  IN /\ retryAt = "fn"
     /\ fnOutcomes' = Append(fnOutcomes, error)
     /\ IF ~RetryIf(retryOptions, error) \/ LastAttempt(retryOptions, attempt)
        THEN /\ retryPromise' = error
             /\ retryAt' = "ended"
             /\ UNCHANGED slept
        ELSE IF retryOptions.backoff \notin Strategies
        THEN /\ retryPromise' = Failure("UnknownStrategy", 0)
             /\ retryAt' = "ended"
             /\ UNCHANGED slept
        ELSE /\ slept' = Append(slept, Delay(retryOptions, attempt, k))
             /\ retryAt' = "sleep"
             /\ UNCHANGED retryPromise
     /\ UNCHANGED <<besidesRetry, retryOptions, attempt, fnCalls>>

\* the timer of sleep fires: attempt++, the loop test, the next fn()
Wake ==
  /\ retryAt = "sleep"
  /\ attempt' = attempt + 1
  /\ IF attempt + 1 <= retryOptions.maxRetries + 1
     THEN /\ retryAt' = "fn"
          /\ fnCalls' = fnCalls + 1
          /\ UNCHANGED retryPromise
     ELSE /\ retryAt' = "ended"
          /\ retryPromise' = [state |-> "fulfilled", kind |-> "undefined", call |-> 0]
          /\ UNCHANGED fnCalls
  /\ UNCHANGED <<besidesRetry, retryOptions, fnOutcomes, slept>>

RetryNext ==
  \/ Retry
  \/ FnFulfils
  \/ \E kind \in {"Transient", "Fatal"}, k \in 0..(RandomSteps - 1) :
       FnRejects(kind, k)
  \/ Wake

RetrySpec == RetryInit /\ [][RetryNext]_vars

\* ---------------------------------------------------------------- memoize
Has(seq, key) == \E i \in 1..Len(seq) : seq[i] = key

\* deleteFromCache(key) on the keys of the Map
DeleteFromCache(seq, key) == SelectSeq(seq, LAMBDA k : k # key)

\* lines 37-40: the oldest key is deleted when the cache is at maxSize
Evict(seq) ==
  IF Len(seq) = maxSize THEN DeleteFromCache(seq, Head(seq)) ELSE seq

\* addToCache(key, val) on the keys of the Map: set keeps the place of a key
\* that is there
AddToCache(seq, key) == IF Has(seq, key) THEN seq ELSE Append(seq, key)

MemoInit ==
  /\ maxSize \in 1..MaxCacheLimit
  /\ cache = <<>>
  /\ calling = <<>>
  /\ wrapperReturned = 0
  /\ QueueAtRest /\ MachineAtRest /\ CommandsAtRest /\ EmitterAtRest
  /\ ObservableAtRest /\ RetryAtRest /\ RaceAtRest

\* wrapper(...args), called by the user or by fn during a call of the
\* wrapper with other arguments: a hit returns the cached value, a miss
\* evicts and enters fn.apply
WrapperCall(key) ==
  /\ ~Has(calling, key)
  /\ IF Has(cache, key)
     THEN /\ wrapperReturned' = key
          /\ UNCHANGED <<cache, calling>>
     ELSE /\ Len(calling) < MaxDepth
          /\ cache' = Evict(cache)
          /\ calling' = Append(calling, key)
          /\ wrapperReturned' = 0
  /\ UNCHANGED <<besidesMemo, maxSize>>

\* fn.apply of the innermost call returns: addToCache and the return
FnReturns ==
  /\ calling # <<>>
  /\ cache' = AddToCache(cache, calling[Len(calling)])
  /\ calling' = SubSeq(calling, 1, Len(calling) - 1)
  /\ wrapperReturned' = calling[Len(calling)]
  /\ UNCHANGED <<besidesMemo, maxSize>>

\* wrapper.cache.delete(key), between calls
CacheDelete(key) ==
  /\ calling = <<>>
  /\ cache' = DeleteFromCache(cache, key)
  /\ wrapperReturned' = 0
  /\ UNCHANGED <<besidesMemo, maxSize, calling>>

\* wrapper.cache.clear(), between calls
CacheClear ==
  /\ calling = <<>>
  /\ cache' = <<>>
  /\ wrapperReturned' = 0
  /\ UNCHANGED <<besidesMemo, maxSize, calling>>

MemoNext ==
  \/ \E key \in 1..MaxKeys : WrapperCall(key)
  \/ FnReturns
  \/ \E key \in 1..MaxKeys : CacheDelete(key)
  \/ CacheClear

MemoSpec == MemoInit /\ [][MemoNext]_vars

\* ------------------------------------------------------------ promiseRace
\* a job [job, input] is the reaction of .then(resolve) or of .catch(reject)
\* for an item
\* the indexes of the items that are settled, in the order of the array
SettledItems(array) ==
  SelectSeq([i \in 1..Len(array) |-> i], LAMBDA i : array[i] # "pending")

RaceInit ==
  /\ inputs \in InputArrays
  /\ raceCalled = FALSE
  /\ raceJobs = <<>>
  /\ racePromise = RacePending
  /\ settled = <<>>
  /\ QueueAtRest /\ MachineAtRest /\ CommandsAtRest /\ EmitterAtRest
  /\ ObservableAtRest /\ RetryAtRest /\ MemoAtRest

\* promiseRace(promises): forEach registers then(resolve) on every item; the
\* reaction of an item that is settled is queued at once
PromiseRace ==
  /\ ~raceCalled
  /\ raceCalled' = TRUE
  /\ settled' = SettledItems(inputs)
  /\ raceJobs' = [k \in 1..Len(SettledItems(inputs)) |->
                   [job |-> "then", input |-> SettledItems(inputs)[k]]]
  /\ UNCHANGED <<besidesRace, inputs, racePromise>>

\* a pending item settles after the call: its then reaction is queued
ItemSettles(i, st) ==
  /\ raceCalled
  /\ i \in 1..Len(inputs)
  /\ inputs[i] = "pending"
  /\ inputs' = [inputs EXCEPT ![i] = st]
  /\ settled' = Append(settled, i)
  /\ raceJobs' = Append(raceJobs, [job |-> "then", input |-> i])
  /\ UNCHANGED <<besidesRace, raceCalled, racePromise>>

\* resolve / reject of the returned promise: the first call settles it
Settle(outcome) ==
  racePromise' = IF racePromise = RacePending THEN outcome ELSE racePromise

\* the reaction of .then(resolve): a fulfilment calls resolve, a rejection
\* rejects the promise then returned, which queues the reaction of
\* .catch(reject)
ThenJob ==
  /\ raceJobs # <<>>
  /\ Head(raceJobs).job = "then"
  /\ IF inputs[Head(raceJobs).input] = "fulfilled"
     THEN /\ Settle(Outcome(Head(raceJobs).input, "fulfilled"))
          /\ raceJobs' = Tail(raceJobs)
     ELSE /\ raceJobs' = Append(Tail(raceJobs),
                                [job |-> "catch", input |-> Head(raceJobs).input])
          /\ UNCHANGED racePromise
  /\ UNCHANGED <<besidesRace, inputs, raceCalled, settled>>

\* the reaction of .catch(reject)
CatchJob ==
  /\ raceJobs # <<>>
  /\ Head(raceJobs).job = "catch"
  /\ Settle(Outcome(Head(raceJobs).input, "rejected"))
  /\ raceJobs' = Tail(raceJobs)
  /\ UNCHANGED <<besidesRace, inputs, raceCalled, settled>>

RaceNext ==
  \/ PromiseRace
  \/ \E i \in 1..MaxInputs, st \in {"fulfilled", "rejected"} : ItemSettles(i, st)
  \/ ThenJob
  \/ CatchJob

RaceSpec == RaceInit /\ [][RaceNext]_vars

TypeOK ==
  /\ concurrency \in 1..MaxConcurrency
  /\ autoStart \in BOOLEAN
  /\ paused \in BOOLEAN
  /\ running \in (0 - MaxTasks)..MaxConcurrency
  /\ \A k \in 1..Len(queue) : queue[k].id \in Ids /\ queue[k].priority \in Priorities
  /\ {queue[k].id : k \in 1..Len(queue)} = Pending

\* ------------------------------------------------------------ properties
Busy == Pending # {} \/ InFlight # {}
Occurrences(seq, c) == Cardinality({k \in 1..Len(seq) : seq[k] = c})
\* a step in which the .finally handler of a started task ran
SettlementProcessed == \E id \in Ids : tasks[id] = "settled" /\ tasks'[id] = "done"
\* the entry the step just taken started, with the entries it left pending
StartedOver(k) == lastStarted # NoEntry /\ k \in 1..Len(queue)
\* the priority the documentation of add gives an entry (default 0)
Documented(prio) == IF prio.has THEN prio.num ELSE 0

\* C1: the number of tasks that were started and have not settled never
\* exceeds the concurrency of the queue.
C1_ExecutingWithinConcurrency == Cardinality(Executing) <= concurrency

\* C2: the running counter is never negative.
C2_RunningNonNegative == running >= 0

\* C3: the handle of an entry discarded by clear() settles as a rejection
\* that carries the queue-cleared marker.
C3_ClearedHandleRejected ==
  \A id \in Ids :
    tasks[id] = "cleared" /\ handle[id] # Unsettled
      => handle[id] = Rejected(QueueClearError)

\* C4: the onEmpty callbacks are never invoked while a started task is still
\* executing.
C4_NoIdleCallbackWhileExecuting == lastCalls # <<>> => Executing = {}

\* C5: whenever processing a settlement takes the queue from having pending
\* or running work to having none, every registered callback is invoked
\* exactly once.
C5_IdleNotifiesEachCallbackOnce ==
  [][(Busy /\ ~Busy' /\ SettlementProcessed)
       => \A c \in 1..Len(emptyCallbacks) : Occurrences(lastCalls', c) = 1]_vars

\* C6: after a clear() of a queue with pending entries and nothing running,
\* the onEmpty callbacks have been invoked by the time the reactions of the
\* discarded entries have all run (no entry having been added meanwhile).
C6_ClearWhileIdleNotifies == ~(owed /\ microtasks = <<>>)

\* C7: a step that leaves the queue paused starts no entry, and while the
\* queue is paused the settlement of a running task still decrements the
\* running counter.
C7_PauseBlocksStarts ==
  [][/\ paused' => /\ lastStarted' = NoEntry
                   /\ \A id \in Ids : tasks'[id] = "running" => tasks[id] = "running"
     /\ (paused /\ SettlementProcessed) => running' = running - 1]_vars

\* C7 witness: a paused queue with a free slot and a pending entry, right
\* after the settlement of a started task was processed.
C7_Witness ==
  /\ paused /\ autoStart
  /\ Pending # {}
  /\ running >= 0 /\ running < concurrency
  /\ microtasks # <<>>
  /\ microtasks[Len(microtasks)].job = "resolveThenable"
  /\ tasks[microtasks[Len(microtasks)].id] = "done"

\* C8: entries added with the same numeric priority while the capacity is
\* taken start in the order of their addition: when one starts, no entry of
\* the same priority added before it is still pending.
C8_FifoAmongEqualPriorities ==
  \A k \in 1..Len(queue) :
    (StartedOver(k) /\ lastStarted.priority.has
       /\ queue[k].priority = lastStarted.priority)
      => queue[k].id > lastStarted.id

\* C9: an entry that starts has the highest numeric priority among the
\* entries pending at that moment.
C9_HighestPriorityStartsFirst ==
  \A k \in 1..Len(queue) :
    (StartedOver(k) /\ lastStarted.priority.has /\ queue[k].priority.has)
      => queue[k].priority.num <= lastStarted.priority.num

\* C10: an entry added without a priority is ordered as one of priority 0:
\* it starts after the pending entries of priority > 0, before those of
\* priority < 0, and in order of addition among priority 0 and no priority.
C10_NoPriorityIsZero ==
  \A k \in 1..Len(queue) :
    (StartedOver(k) /\ (~lastStarted.priority.has \/ ~queue[k].priority.has))
      => \/ Documented(queue[k].priority) < Documented(lastStarted.priority)
         \/ /\ Documented(queue[k].priority) = Documented(lastStarted.priority)
            /\ queue[k].id > lastStarted.id

\* a step in which clear() discarded at least one entry
ClearStep == \E id \in Ids : tasks[id] = "queued" /\ tasks'[id] = "cleared"
Started == {id \in Ids : tasks[id] \in {"running", "settled", "done"}}

\* C11: resolve / reject of an entry is called at most once: not before its
\* task settled, once with the task's outcome when it ran, once by clear()
\* when it was discarded.
C11_ContinuedOnce ==
  \A id \in Ids :
    /\ Len(continued[id]) <= 1
    /\ tasks[id] \in {"none", "queued", "running"} => continued[id] = <<>>
    /\ tasks[id] = "settled" => continued[id] \in {<<>>, <<work[id]>>}
    /\ tasks[id] = "done" => continued[id] = <<work[id]>>
    /\ tasks[id] = "cleared" => continued[id] = <<Rejected(QueueClearError)>>

\* C11 witness: on a paused queue, one entry ran and was continued with its
\* outcome, another was discarded and continued by clear().
C11_Witness ==
  /\ paused
  /\ \E a, b \in Ids :
       /\ tasks[a] = "done" /\ continued[a] = <<work[a]>>
       /\ tasks[b] = "cleared" /\ Len(continued[b]) = 1

\* a step in which add() was called
AddStep == \E id \in Ids : tasks[id] = "none" /\ tasks'[id] # "none"
\* an entry that exists has its handle settled in the end, which takes that it
\* was started or discarded
Served(id) == (tasks[id] # "none") ~> (handle[id] # Unsettled)

\* C12: with autoStart, when every started task settles and every pause() is
\* followed by a start(), every entry added is eventually started or
\* discarded and its handle eventually settles.
C12_EveryEntryServed == \A id \in 1..MaxLiveTasks : Served(id)

\* C12 amended: the same, for a queue to which only finitely many entries
\* are added.
C12_EveryEntryServedIfAddsEnd ==
  <>[][~AddStep]_vars => \A id \in 1..MaxLiveTasks : Served(id)

\* C12 witness: on a queue of concurrency 1, an entry has run and its handle
\* is settled, and an entry added after it was discarded and its handle is
\* settled too.
C12_Witness ==
  /\ concurrency = 1
  /\ \E a, b \in 1..MaxLiveTasks :
       /\ a < b
       /\ tasks[a] = "done" /\ handle[a] # Unsettled
       /\ tasks[b] = "cleared" /\ handle[b] # Unsettled

\* C13: with autoStart, whenever the queue is not paused and an entry is
\* pending, the running count equals the concurrency.
C13_SaturatedWhilePending ==
  (autoStart /\ ~paused /\ queue # <<>>) => running = concurrency

\* C14: start() called twice leaves the queue as start() called once does.
C14_StartIdempotent ==
  LET once == Process(queue, running, FALSE)
      twice == Process(once.queue, once.running, FALSE)
  IN twice.queue = once.queue /\ twice.running = once.running
     /\ twice.started = NoEntry

\* C15: with autoStart false no entry is started before the first start().
C15_NoStartBeforeStart == ~scheduling => Started = {}

\* C16: clear() changes neither the running count nor the paused flag, and
\* the running count changes only by +1 for an entry started and by -1 for
\* the settlement of a started task.
C16_RunningChangesOnlyByStartAndSettle ==
  [][/\ ClearStep => (running' = running /\ paused' = paused)
     /\ running' - running =
          (IF lastStarted' # NoEntry THEN 1 ELSE 0)
          - (IF SettlementProcessed THEN 1 ELSE 0)]_vars

\* C17: a clear() leaves the pending list empty and does not touch the
\* started tasks; once an entry was discarded, the handle of a task that ran
\* still settles with the task's own outcome only.
C17_ClearLeavesStartedTasks ==
  [][/\ ClearStep =>
          /\ queue' = <<>>
          /\ \A id \in Started :
               /\ tasks'[id] = tasks[id]
               /\ handle'[id] = handle[id]
               /\ continued'[id] = continued[id]
               /\ work'[id] = work[id]
     /\ (\E b \in Ids : tasks'[b] = "cleared") =>
          \A a \in Ids : tasks'[a] = "done" => handle'[a] \in {Unsettled, work'[a]}]_vars

\* C17 witness: right after a clear() (the reaction of the discarded entry
\* has not run), a task started before it is still running.
C17_Witness ==
  /\ queue = <<>>
  /\ \E a, b \in Ids :
       /\ a < b
       /\ tasks[a] = "running"
       /\ tasks[b] = "cleared"
       /\ \E k \in 1..Len(microtasks) :
            microtasks[k].id = b /\ microtasks[k].job = "catchHandler"

\* C18: the handle of a started entry settles with the outcome of its task;
\* a task's error reaches no handle but its own; processing the settlement
\* of a failed task starts the next pending entry unless the queue is paused.
C18_OutcomeReachesOwnHandle ==
  [][/\ \A id \in Ids :
          (handle'[id] # handle[id] /\ id \in Started) => handle'[id] = work[id]
     /\ \A id \in Ids :
          handle'[id].state = "rejected" => handle'[id] = work[id]
     /\ ((\E id \in Ids : /\ tasks[id] = "settled" /\ tasks'[id] = "done"
                          /\ work[id].state = "rejected")
         /\ ~paused /\ queue # <<>>) => lastStarted' # NoEntry]_vars

\* C18 witness: a failed task's handle is rejected with its error while a
\* task started after it has its own result.
C18_Witness ==
  \E a, b \in Ids :
    /\ a < b
    /\ handle[a] = Rejected("TaskError")
    /\ handle[b] = Fulfilled("result")
    /\ concurrency = 1

\* C19: no queue with a concurrency below 1 exists.
C19_ConcurrencyPositive == concurrency >= 1

\* C20: the onEmpty callbacks are never invoked while an entry is pending.
C20_NoIdleCallbackWhilePending == lastCalls # <<>> => queue = <<>>

\* C20 witness: the settlement of the last running task was processed on a
\* paused queue with entries pending and callbacks registered, and none was
\* invoked.
C20_Witness ==
  /\ paused /\ queue # <<>> /\ running = 0 /\ InFlight = {}
  /\ emptyCallbacks # <<>> /\ lastCalls = <<>>
  /\ microtasks # <<>>
  /\ microtasks[Len(microtasks)].job = "resolveThenable"
  /\ tasks[microtasks[Len(microtasks)].id] = "done"

\* C21: when the settlement of a started task is processed, the handle of
\* that task has settled before an onEmpty callback is invoked and before
\* the next entry is started.
C21_HandleSettlesBeforeIdleCheck ==
  [][\A id \in Ids :
       (tasks[id] = "settled" /\ tasks'[id] = "done"
          /\ (lastCalls' # <<>> \/ lastStarted' # NoEntry))
         => handle[id] # Unsettled]_vars

\* C22: the running count is the number of tasks started whose settlement
\* the queue has not processed, and size is the number of entries added
\* that were neither started nor discarded.
C22_CountersMatchTasks ==
  /\ running = Cardinality(InFlight)
  /\ Len(queue) = Cardinality(Pending)

\* C23: the running count never exceeds the concurrency.
C23_RunningWithinConcurrency == running <= concurrency

\* C23 witness: a queue of concurrency 2 is saturated, an entry is pending
\* and the queue is not paused.
C23_Witness ==
  concurrency = 2 /\ running = 2 /\ queue # <<>> /\ ~paused

\* C24: whenever the onEmpty callbacks are invoked, all of them are, in the
\* order of their registration.
C24_CallbacksInRegistrationOrder ==
  lastCalls # <<>> =>
    /\ Len(lastCalls) = Len(emptyCallbacks)
    /\ \A k \in 1..Len(lastCalls) : lastCalls[k] = k

\* C24 witness: processing the settlement of the last running task has
\* invoked two registered callbacks.
C24_Witness ==
  /\ Len(lastCalls) = 2 /\ running = 0
  /\ \A id \in Ids : tasks[id] \in {"none", "done"}

\* C25: size grows only in add(), by 1; it shrinks only by 1 when an entry
\* is dequeued to be started, or to 0 in clear(); a step that starts an
\* entry without adding one takes exactly that entry off the list.
C25_SizeChangesOnlyByAddStartClear ==
  [][/\ Len(queue') > Len(queue) =>
          (AddStep /\ Len(queue') = Len(queue) + 1)
     /\ Len(queue') < Len(queue) =>
          \/ ClearStep /\ queue' = <<>>
          \/ lastStarted' # NoEntry /\ Len(queue') = Len(queue) - 1
     /\ (lastStarted' # NoEntry /\ ~AddStep) =>
          Len(queue') = Len(queue) - 1
     /\ (lastStarted' = NoEntry /\ ~AddStep /\ ~ClearStep) =>
          queue' = queue]_vars

\* C25 witness: after the settlement of a task was processed, a step has
\* started one of two pending entries and left the other one pending.
C25_Witness ==
  /\ lastStarted # NoEntry /\ Len(queue) = 1
  /\ \E a \in Ids : tasks[a] = "done"

\* C26: can(event) does not throw, and returns true exactly when
\* transition(event) in the same state with the same context would perform
\* the transition and return true.
C26_CanAgreesWithTransition ==
  canReturned.called =>
    /\ canReturned.threw = "none"
    /\ canReturned.value =
         Transition(config, currentState, context, canReturned.event).value

\* C27: undo() followed by redo() restores the calculator value held before
\* the undo(), and execute(c) followed by undo() restores the value held
\* before the execute(c), for every command c.
C27_UndoRedoRestoreValue ==
  /\ RedoOn(UndoOn(Manager)).value = calculator
  /\ \A cmd \in NewCommands : UndoOn(ExecuteOn(Manager, cmd)).value = calculator

\* the wrapper of the n-th once() call is in a listeners array
Registered(n) ==
  \E e \in EmitterEvents : \E i \in 1..Len(events[e].listeners) :
    events[e].listeners[i].wrapper = n

\* C28: a listener registered with once() is invoked for at most one emit,
\* and its registration is gone once it was invoked.
C28_OnceInvokedAtMostOnce ==
  \A n \in OnceCalls :
    /\ invoked[n] <= 1
    /\ invoked[n] = 1 => ~Registered(n)

\* C29: emit(event) returns true exactly when the event has a listener at
\* the time of the call.
C29_EmitTrueIffListeners ==
  emitReturned.called => (emitReturned.value <=> emitReturned.count > 0)

\* the first n elements of a sequence, all of them when it has fewer
FirstValues(seq, n) == SubSeq(seq, 1, IF n < Len(seq) THEN n ELSE Len(seq))

\* C30: every subscription to source.take(n) receives exactly the first
\* min(n, k) of the k values of the source, whatever subscriptions to the
\* same observable were made before it.
C30_TakeGivesFirstValues ==
  \A j \in 1..Len(received) :
    received[j].values = FirstValues(source, takes[received[j].take].count)

\* C33: once the calls of the wrapper have returned, the cache holds at most
\* maxSize entries.
C33_CacheWithinMaxSize == calling = <<>> => Len(cache) <= maxSize

\* C34: the promise promiseRace returned settles only with the outcome of
\* the item that settled first, a rejection as well as a fulfilment.
C34_RaceSettlesAsFirstSettled ==
  racePromise # RacePending =>
    racePromise = Outcome(settled[1], inputs[settled[1]])

\* C35: the task of an entry is called at most once and never after clear()
\* discarded the entry: a step calls the task of an entry only if the entry
\* was pending (or is added by this very step), an entry that was started or
\* discarded is never pending again, and a discarded entry stays discarded.
C35_TaskCalledAtMostOnce ==
  [][/\ lastStarted' # NoEntry =>
          /\ tasks[lastStarted'.id] \in {"none", "queued"}
          /\ tasks'[lastStarted'.id] = "running"
     /\ \A id \in Ids :
          /\ (tasks'[id] = "running" /\ tasks[id] # "running")
               => lastStarted'.id = id
          /\ tasks[id] \notin {"none", "queued"}
               => tasks'[id] \notin {"none", "queued"}
          /\ tasks[id] = "cleared" => tasks'[id] = "cleared"]_vars

\* C35 witness: an entry was discarded by clear(), its reactions have run to
\* the end (the .finally handler called _process), and an entry added after
\* the clear() has run and settled.
C35_Witness ==
  \E b, c \in Ids :
    /\ b < c
    /\ tasks[b] = "cleared" /\ handle[b] # Unsettled
    /\ tasks[c] = "done" /\ handle[c] # Unsettled

\* C36: one step (an add(), a start() or a settlement handler) raises the
\* running count by at most 1 and calls the task of at most one entry.
C36_OneStartPerStep ==
  [][/\ running' <= running + 1
     /\ Cardinality({id \in Ids : tasks'[id] = "running" /\ tasks[id] # "running"}) <= 1
     /\ Len(queue') >= Len(queue) - 1 \/ ClearStep]_vars

\* C36 witness: a step on a queue of concurrency 2 with both slots free and
\* two entries pending has started one entry and left the other pending.
C36_Witness ==
  /\ concurrency = 2 /\ ~paused
  /\ running = 1 /\ Len(queue) = 1
  /\ lastStarted # NoEntry
  /\ InFlight = {lastStarted.id}
  /\ \A id \in Ids : tasks[id] \in {"none", "queued", "running"}

C31_DelayWithinMaxDelay ==
  \A i \in 1..Len(slept) : slept[i] <= retryOptions.maxDelay * JitterScale

\* C32: fn is invoked at most maxRetries + 1 times; when an invocation
\* succeeds retry resolves with its result and fn is invoked no more; when
\* an invocation fails with an error retryIf refuses, or the invocation
\* number maxRetries + 1 fails, retry rejects with that error.
C32_InvocationsAndOutcome ==
  /\ fnCalls <= retryOptions.maxRetries + 1
  /\ \A i \in 1..Len(fnOutcomes) :
       /\ fnOutcomes[i].state = "fulfilled" =>
            /\ retryPromise = fnOutcomes[i]
            /\ fnCalls = i
            /\ \A j \in 1..(i - 1) : fnOutcomes[j].state = "rejected"
       /\ (fnOutcomes[i].state = "rejected"
            /\ (~RetryIf(retryOptions, fnOutcomes[i]) \/ i = retryOptions.maxRetries + 1)) =>
            /\ retryPromise = fnOutcomes[i]
            /\ fnCalls = i
  /\ retryPromise.state = "fulfilled" =>
       (fnOutcomes # <<>> /\ retryPromise = fnOutcomes[Len(fnOutcomes)])

\* C32 witness: two invocations failed and were retried, the third and last
\* one allowed failed too, and retry rejected with its error.
C32_Witness ==
  /\ retryOptions.maxRetries = 2 /\ fnCalls = 3
  /\ retryAt = "ended"
  /\ retryPromise = Failure("Transient", 3)
  /\ Len(slept) = 2
====
